---- MODULE Spec2Model ----
(***************************************************************************)
(* A model of the three OCR-D processors of ocrd_tesserocr:                *)
(*   crop          (src/ocrd_tesserocr/crop.py, TesserocrCrop.process)     *)
(*   deskew        (src/ocrd_tesserocr/deskew.py, TesserocrDeskew)         *)
(*   segment-line  (src/ocrd_tesserocr/segment_line.py)                    *)
(* One action is one iteration of a processor's loop over its input files. *)
(* The answers of the Tesseract engine and of the workspace are inputs of  *)
(* that action, drawn from small sets.                                     *)
(*                                                                         *)
(* Python's None is the empty sequence <<>>, an optional value v is <<v>>. *)
(***************************************************************************)
EXTENDS Integers, Sequences, FiniteSets, TLC

VARIABLES
    tool,             \* the processor that runs: "crop", "deskew", "segment-line"
    parameter,        \* self.parameter
    n,                \* index of the next input file of the loop
    status,           \* "running", "done" (loop left normally), "aborted" (exception)
    workspace,        \* the calls made on self.workspace, in order
    log,              \* the records LOG emitted during the latest loop iteration:
                      \* all warnings and errors, crop's records of its blocks,
                      \* segment-line's records of the existing TextLines
    image,            \* crop.py's local `image`: <<>> while unbound
    user_defined_dpi, \* tessapi's variable user_defined_dpi: <<>> while never set
    cur               \* the input file and the engine's answers of the latest iteration

vars == <<tool, parameter, n, status, workspace, log, image, user_defined_dpi, cur>>

(***************************************************************************)
(* Bounds of the model.                                                    *)
(***************************************************************************)
NumFiles == 2       \* length of self.input_files
MaxBlocks == 2      \* most components GetComponentImages(RIL.BLOCK) returns
MaxRegions == 2     \* most regions of an input page
MaxLines == 2       \* most components GetComponentImages(RIL.TEXTLINE) returns
TicksPerDegree == 2 \* resolution of the angles: ticks to the degree

(***************************************************************************)
(* Program constants.                                                      *)
(***************************************************************************)
MinBlockSize == 25      \* crop.py: width < 25 / zoom, height < 25 / zoom
ReferenceDpi == 300     \* crop.py: zoom = 300 / dpi
MinConfidence == 10     \* deskew.py: osr['orient_conf'] < 10

FILEGRP_IMG_CROP == "OCR-D-IMG-CROP"
FILEGRP_IMG_DESKEW == "OCR-D-IMG-DESKEW"
output_file_grp == "OUTPUT"
MIMETYPE_PAGE == "application/vnd.prima.page+xml"

Min(a, b) == IF a <= b THEN a ELSE b
Max(a, b) == IF a >= b THEN a ELSE b

SeqUpTo(S, k) == UNION {[1..m -> S] : m \in 0..k}

(***************************************************************************)
(* Coordinates (common.py, ocrd_utils).                                    *)
(***************************************************************************)
\* common.bbox_from_xywh: (left, top, right, bottom) of an x/y/w/h dict
bbox_from_xywh(xywh) == <<xywh.x, xywh.y, xywh.x + xywh.w, xywh.y + xywh.h>>

\* common.points_from_bbox: the four corners, clockwise from top left
points_from_bbox(l, t, r, b) == <<<<l, t>>, <<r, t>>, <<r, b>>, <<l, b>>>>

\* ocrd_utils.points_from_xywh: the four corners of an x/y/w/h dict
points_from_xywh(xywh) ==
    <<<<xywh.x, xywh.y>>, <<xywh.x + xywh.w, xywh.y>>,
      <<xywh.x + xywh.w, xywh.y + xywh.h>>, <<xywh.x, xywh.y + xywh.h>>>>

(***************************************************************************)
(* The PAGE document and the image an input file refers to.                *)
(***************************************************************************)
\* OcrdExif of the page image, and PIL's info['dpi'] (0 when the file has none)
Images ==
    { [width |-> 100, height |-> 90, xResolution |-> 1, resolutionUnit |-> "inches", dpi |-> 0],
      [width |-> 100, height |-> 90, xResolution |-> 600, resolutionUnit |-> "inches", dpi |-> 600],
      [width |-> 100, height |-> 90, xResolution |-> 118, resolutionUnit |-> "cm", dpi |-> 300] }

\* a Border an earlier step left in the input
InputBorder == [Coords |-> points_from_bbox(1, 1, 99, 89)]

\* a region of an input page: the i-th region of its list
Region(type, i, lines) ==
    [type |-> type, id |-> i, Coords |-> points_from_bbox(10 * i, 5 * i, 10 * i + 40, 5 * i + 30),
     TextLine |-> lines, AlternativeImage |-> <<>>, orientation |-> <<>>,
     primaryScript |-> <<>>, readingDirection |-> <<>>, textLineOrder |-> <<>>]

Page(border, textRegions, tableRegions) ==
    [Border |-> border, TextRegion |-> textRegions, TableRegion |-> tableRegions,
     AlternativeImage |-> <<>>, orientation |-> <<>>, primaryScript |-> <<>>,
     readingDirection |-> <<>>, textLineOrder |-> <<>>, MetadataItem |-> <<>>]

\* page_from_file + metadata.add_MetadataItem(processingStep, value=TOOL)
AddMetadataItem(page) == [page EXCEPT !.MetadataItem = Append(@, tool)]

(***************************************************************************)
(* The workspace: its calls are recorded in order.                         *)
(***************************************************************************)
DownloadFile(i) == [op |-> "download_file", n |-> i]

AddFile(i, file_grp, mimetype, content) ==
    [op |-> "add_file", n |-> i, file_grp |-> file_grp, mimetype |-> mimetype,
     content |-> content]

\* a variant of PageFile that writes no output for a page nothing was found in
PageFileUnlessEmpty(i, page) ==
    IF page.AlternativeImage = <<>> /\ page.TextRegion = <<>> THEN <<>>
    ELSE <<AddFile(i, output_file_grp, MIMETYPE_PAGE, page)>>

\* self.workspace.add_file(..., file_grp=self.output_file_grp, content=to_xml(pcgts))
PageFile(i, page) == <<AddFile(i, output_file_grp, MIMETYPE_PAGE, page)>>

Msg(level, msg, ref) == [level |-> level, msg |-> msg, ref |-> ref]

(***************************************************************************)
(* crop                                                                    *)
(***************************************************************************)
Paddings == {-40, 0, 4}

\* a component of GetComponentImages(RIL.BLOCK, True): the block's box in the
\* page image and the bounding box of the non-zero pixels of its binarized
\* image (image.getbbox(): None when the image is empty)
Blocks ==
    { [xywh |-> [x |-> 2, y |-> 3, w |-> 60, h |-> 60], bin_bbox |-> bb] :
        bb \in { <<>>, << <<5, 0, 29, 50>> >>, << <<0, 5, 50, 29>> >>,
                 << <<5, 5, 35, 35>> >>, << <<0, 0, 60, 60>> >> } }
    \cup { [xywh |-> [x |-> 40, y |-> 30, w |-> 60, h |-> 50], bin_bbox |-> << <<0, 0, 60, 50>> >>] }

CropInputs ==
    { [image |-> im, page |-> Page(b, r, <<>>)] :
        im \in Images, b \in {<<>>, <<InputBorder>>},
        r \in {<<>>, <<Region("TextRegion", 1, <<>>)>>} }

\* dpi = xResolution, converted to inches (round() rounds half to even)
RoundHalfEven(num, den) ==
    LET q == num \div den
        r == num % den
    IN  IF 2 * r > den \/ (2 * r = den /\ q % 2 = 1) THEN q + 1 ELSE q

Dpi(info) ==
    IF info.resolutionUnit = "cm" THEN RoundHalfEven(info.xResolution * 254, 100)
    ELSE info.xResolution

\* zoom as the fraction num/den: 300 / dpi when the resolution is known, else 1
Zoom(info) ==
    IF info.xResolution # 1 THEN [num |-> ReferenceDpi, den |-> Dpi(info)]
    ELSE [num |-> 1, den |-> 1]

\* why a component is filtered: "empty", "width", "height", or "" when it is kept
\* (x < 25 / zoom with zoom = num/den > 0 is x * num < 25 * den)
FilterBySize(component, num, den) ==
    IF component.bin_bbox = <<>> THEN "empty"
    ELSE LET bin_bbox == component.bin_bbox[1]
             width == bin_bbox[3] - bin_bbox[1]
             height == bin_bbox[4] - bin_bbox[2]
         IN  IF width * num < MinBlockSize * den THEN "width"
             ELSE IF height * num < MinBlockSize * den THEN "height"
             ELSE ""

\* a variant of FilterBlock that forgets the zoom
FilterBlockUnscaled(component, zoom) == FilterBySize(component, 1, 1)

FilterBlock(component, zoom) == FilterBySize(component, zoom.num, zoom.den)

\* one iteration of the loop over the components: the running extent after it
BlockStep(ext, component, zoom) ==
    IF FilterBlock(component, zoom) # "" THEN ext
    ELSE LET bbox == bbox_from_xywh(component.xywh)
         IN  [min_x |-> Min(ext.min_x, bbox[1]), min_y |-> Min(ext.min_y, bbox[2]),
              max_x |-> Max(ext.max_x, bbox[3]), max_y |-> Max(ext.max_y, bbox[4])]

RECURSIVE Extent(_, _, _)
Extent(components, zoom, ext) ==
    IF components = <<>> THEN ext
    ELSE Extent(Tail(components), zoom, BlockStep(ext, Head(components), zoom))

\* the level of the record LOG emits for a filtered component
FilterLevel == "debug"

\* "Updated page border: min_x:max_x,min_y:max_y" carries the running extent
BlockLog(components, zoom, initial) ==
    { Msg(FilterLevel, "Ignoring region: " \o FilterBlock(components[i], zoom), <<i>>) :
        i \in {j \in DOMAIN components : FilterBlock(components[j], zoom) # ""} }
    \cup { LET ext == Extent(SubSeq(components, 1, i), zoom, initial)
           IN  Msg("debug", "Updated page border", <<i, ext.min_x, ext.max_x, ext.min_y, ext.max_y>>) :
        i \in {j \in DOMAIN components : FilterBlock(components[j], zoom) = ""} }

\* a variant of AddPadding that does not clip
AddPaddingUnclipped(ext, padding, page_image) ==
    [min_x |-> ext.min_x - padding, max_x |-> ext.max_x + padding,
     min_y |-> ext.min_y - padding, max_y |-> ext.max_y + padding]

\* the extent with the padding added, clipped to the page image
AddPadding(ext, padding, page_image) ==
    [min_x |-> Max(ext.min_x - padding, 0),
     max_x |-> Min(ext.max_x + padding, page_image.width),
     min_y |-> Max(ext.min_y - padding, 0),
     max_y |-> Min(ext.max_y + padding, page_image.height)]

ValidExtent(ext) == ext.min_x < ext.max_x /\ ext.min_y < ext.max_y

\* page_image.crop(box): the saved image is the box it was cut to
CroppedImage(box) == [kind |-> "image", box |-> box]

\* the `image` local after the loop over the components
ImageAfter(components, before) ==
    IF components = <<>> THEN before
    ELSE LET xywh == components[Len(components)].xywh
         IN  <<[width |-> xywh.w, height |-> xywh.h]>>

\* the page after the border was decided, and the image file added for it
CropPage(page, ext, padding, page_image) ==
    IF ValidExtent(ext)
    THEN LET p == AddPadding(ext, padding, page_image)
         IN  [page EXCEPT
                !.Border = <<[Coords |-> points_from_bbox(p.min_x, p.min_y, p.max_x, p.max_y)]>>,
                !.AlternativeImage = Append(@, [filename |-> CroppedImage(<<p.min_x, p.min_y, p.max_x, p.max_y>>),
                                                comments |-> "cropped"])]
    ELSE page

CropImageFiles(i, ext, padding, page_image) ==
    IF ValidExtent(ext)
    THEN LET p == AddPadding(ext, padding, page_image)
         IN  <<AddFile(i, FILEGRP_IMG_CROP, "image/png",
                       CroppedImage(<<p.min_x, p.min_y, p.max_x, p.max_y>>))>>
    ELSE <<>>

\* the records of the existing Border and the existing TextRegions
ExistingLog(page) ==
    (IF page.Border # <<>> THEN {Msg("warning", "Overwriting existing Border", <<>>)} ELSE {})
    \cup (IF page.TextRegion # <<>>
          THEN {Msg("warning", "Ignoring extent from existing TextRegions", <<>>)} ELSE {})

\* line 78 reads `image` (not page_image): a NameError while it is unbound
RegionsRaise(page) == page.TextRegion # <<>> /\ image = <<>>

CropFile ==
    /\ tool = "crop" /\ status = "running" /\ n < NumFiles
    /\ \E input \in CropInputs, components \in SeqUpTo(Blocks, MaxBlocks) :
        LET page == AddMetadataItem(input.page)
            zoom == Zoom(input.image)
            initial == [min_x |-> input.image.width, min_y |-> input.image.height,
                        max_x |-> 0, max_y |-> 0]
            ext == Extent(components, zoom, initial)
        IN  IF RegionsRaise(page)
            THEN /\ status' = "aborted"
                 /\ workspace' = Append(workspace, DownloadFile(n))
                 /\ log' = (IF page.Border # <<>>
                            THEN {Msg("warning", "Overwriting existing Border", <<>>)} ELSE {})
                 /\ cur' = [n |-> n, input |-> input, answers |-> <<>>]
                 /\ UNCHANGED <<n, image, user_defined_dpi>>
            ELSE /\ status' = "running"
                 /\ n' = n + 1
                 /\ user_defined_dpi' =
                        IF input.image.xResolution # 1 THEN <<Dpi(input.image)>>
                        ELSE user_defined_dpi
                 /\ image' = ImageAfter(components, image)
                 /\ log' = ExistingLog(page) \cup BlockLog(components, zoom, initial)
                             \cup (IF ValidExtent(ext) THEN {}
                                   ELSE {Msg("error", "Cannot find valid extent for page", <<>>)})
                 /\ workspace' = workspace \o <<DownloadFile(n)>>
                        \o CropImageFiles(n, ext, parameter.padding, input.image)
                        \o PageFile(n, CropPage(page, ext, parameter.padding, input.image))
                 /\ cur' = [n |-> n, input |-> input, answers |-> components]
    /\ UNCHANGED <<tool, parameter>>

(***************************************************************************)
(* deskew                                                                  *)
(*                                                                         *)
(* Angles are whole numbers of ticks, TicksPerDegree ticks to the degree;  *)
(* the layout's deskew angle, which the engine gives in radians, is a      *)
(* whole number of units of pi / (180 * TicksPerDegree) radians.           *)
(* A confidence is [nan |-> TRUE] or [nan |-> FALSE, value |-> v].         *)
(***************************************************************************)
Conf(v) == [nan |-> FALSE, value |-> v]
NaN == [nan |-> TRUE, value |-> 0]

Osr(orient_conf, orient_deg, script_conf, script_name) ==
    <<[orient_conf |-> orient_conf, orient_deg |-> orient_deg,
       script_conf |-> script_conf, script_name |-> script_name]>>

Layout(orientation, writing_direction, textline_order, deskew_angle) ==
    <<[orientation |-> orientation, writing_direction |-> writing_direction,
       textline_order |-> textline_order, deskew_angle |-> deskew_angle]>>

\* what DetectOrientationScript() and AnalyseLayout() answer for one segment
SegmentAnswers ==
    { [osr |-> <<>>, layout |-> <<>>],
      [osr |-> <<>>, layout |-> Layout("PAGE_UP", "LEFT_TO_RIGHT", "TOP_TO_BOTTOM", 1)],
      [osr |-> Osr(NaN, 0, Conf(15), "Latin"), layout |-> <<>>],
      [osr |-> Osr(Conf(15), 90, NaN, "Latin"), layout |-> <<>>],
      [osr |-> Osr(Conf(5), 90, Conf(5), "Fraktur"),
       layout |-> Layout("PAGE_UP", "LEFT_TO_RIGHT", "TOP_TO_BOTTOM", 0)],
      [osr |-> Osr(Conf(15), 90, Conf(15), "Fraktur"),
       layout |-> Layout("PAGE_RIGHT", "TOP_TO_BOTTOM", "RIGHT_TO_LEFT", -3)],
      [osr |-> Osr(Conf(15), 180, Conf(5), "Latin"), layout |-> <<>>],
      [osr |-> Osr(Conf(10), 0, Conf(10), "Bengali"),
       layout |-> Layout("PAGE_DOWN", "RIGHT_TO_LEFT", "BOTTOM_TO_TOP", 0)],
      [osr |-> Osr(Conf(10), 180, Conf(15), "Latin"),
       layout |-> Layout("PAGE_LEFT", "LEFT_TO_RIGHT", "TOP_TO_BOTTOM", 1)] }

OperationLevels == {"page", "region"}

\* the page image with its resolution, and page_xywh as image_from_page gives it
DeskewInputs ==
    { [image |-> im, page_xywh |-> [x |-> IF im.xResolution = 1 THEN 0 ELSE 1, y |-> 0],
       page |-> Page(<<>>, [i \in 1..tb[1] |-> Region("TextRegion", i, <<>>)],
                     [i \in 1..tb[2] |-> Region("TableRegion", tb[1] + i, <<>>)])] :
        im \in {i \in Images : i.resolutionUnit = "inches"},
        tb \in {p \in (0..MaxRegions) \X (0..MaxRegions) : p[1] + p[2] <= MaxRegions} }

\* the dict of script names (an excerpt), with its default
PrimaryScript(script_name) ==
    CASE script_name = "Fraktur" -> "Latf - Latin (Fraktur variant)"
      [] script_name = "Bengali" -> "Armn - Armenian"
      [] script_name = "Latin" -> "Latn - Latin"
      [] OTHER -> "Latn - Latin"

ReadingDirection(writing_direction) ==
    CASE writing_direction = "LEFT_TO_RIGHT" -> "left-to-right"
      [] writing_direction = "RIGHT_TO_LEFT" -> "right-to-left"
      [] writing_direction = "TOP_TO_BOTTOM" -> "top-to-bottom"
      [] OTHER -> "bottom-to-top"

\* clockwise rotation of an Orientation, as in Tesseract's OrientationIdToValue
OrientationAngle(orientation) ==
    CASE orientation = "PAGE_RIGHT" -> 270
      [] orientation = "PAGE_DOWN" -> 180
      [] orientation = "PAGE_LEFT" -> 90
      [] OTHER -> 0

\* a variant of OsrAssertion without the assertion on script_conf
OsrAssertionOrientOnly(osr) ==
    IF osr = <<>> THEN ""
    ELSE IF osr[1].orient_conf.nan THEN "orientation detection failed"
    ELSE ""

\* the assertions on the OSD result: which of them fails, "" when none does
OsrAssertion(osr) ==
    IF osr = <<>> THEN ""
    ELSE IF osr[1].orient_conf.nan THEN "orientation detection failed"
    ELSE IF osr[1].script_conf.nan THEN "script detection failed"
    ELSE ""

\* angle after the OSD result, in degrees
OsrAngle(osr) ==
    IF osr = <<>> THEN 0
    ELSE IF osr[1].orient_conf.value < MinConfidence THEN 0
    ELSE osr[1].orient_deg

\* deskew_angle *= - 180 / math.pi, in ticks
DeskewAngle(layout) == 0 - layout[1].deskew_angle

\* int(x) of an angle of x ticks is not 0
IntNonZero(ticks) == ticks >= TicksPerDegree \/ 0 - ticks >= TicksPerDegree

\* a variant of TotalAngle that takes the Orientation of the layout result
\* for the angle where there is one
TotalAngleFromLayout(osr, layout) ==
    IF layout = <<>> THEN OsrAngle(osr) * TicksPerDegree
    ELSE OrientationAngle(layout[1].orientation) * TicksPerDegree + DeskewAngle(layout)

\* angle after the layout result, in ticks
TotalAngle(osr, layout) ==
    OsrAngle(osr) * TicksPerDegree + (IF layout = <<>> THEN 0 ELSE DeskewAngle(layout))

\* 180 - (180 - angle) % 360, in ticks
NormalizeAngle(angle) ==
    180 * TicksPerDegree - ((180 * TicksPerDegree - angle) % (360 * TicksPerDegree))

Comments(isPage, xywh, osr, layout) ==
    (IF isPage /\ xywh.x = 0 /\ xywh.y = 0 THEN "" ELSE "cropped")
    \o (IF OsrAngle(osr) # 0 THEN ",rotated-" \o ToString(OsrAngle(osr)) ELSE "")
    \o (IF layout # <<>> /\ IntNonZero(DeskewAngle(layout)) THEN ",deskewed" ELSE "")

\* the image saved for a segment: image.rotate(-angle, expand=True) when the
\* layout result gave a non-zero angle, else the segment's image as it was
DeskewedImage(ref, osr, layout) ==
    [kind |-> "image", of |-> ref,
     rotated |-> IF layout # <<>> /\ TotalAngle(osr, layout) # 0
                 THEN TotalAngle(osr, layout) ELSE 0]

\* the AlternativeImages of a segment after _process_segment has returned
AddAlternativeImage(images, alternative) == Append(images, alternative)

\* the annotations _process_segment sets on a segment; ref names the segment
AnnotateSegment(segment, isPage, isText, xywh, answer, ref) ==
    LET osr == answer.osr
        layout == answer.layout
        s1 == IF osr # <<>> /\ ~(osr[1].script_conf.value < MinConfidence) /\ (isText \/ isPage)
              THEN [segment EXCEPT !.primaryScript = <<PrimaryScript(osr[1].script_name)>>]
              ELSE segment
        s2 == IF layout # <<>> /\ TotalAngle(osr, layout) # 0
              THEN [s1 EXCEPT !.orientation = <<NormalizeAngle(TotalAngle(osr, layout))>>]
              ELSE s1
        s3 == IF layout # <<>> /\ (isText \/ isPage)
              THEN [s2 EXCEPT !.readingDirection = <<ReadingDirection(layout[1].writing_direction)>>,
                              !.textLineOrder = <<ReadingDirection(layout[1].textline_order)>>]
              ELSE s2
    IN  [s3 EXCEPT !.AlternativeImage =
            AddAlternativeImage(@, [filename |-> DeskewedImage(ref, osr, layout),
                                    comments |-> Comments(isPage, xywh, osr, layout)])]

OsdLog(answer, ref) ==
    (IF answer.osr = <<>> THEN {Msg("warning", "no OSD result", <<ref>>)} ELSE {})
    \cup (IF answer.layout # <<>>
             /\ OrientationAngle(answer.layout[1].orientation) # OsrAngle(answer.osr)
          THEN {Msg("warning", "inconsistent angles from layout analysis and orientation detection", <<ref>>)}
          ELSE {})

\* a variant of Segments that leaves the TableRegions out
SegmentsTextOnly(page, oplevel) ==
    IF oplevel = "page" THEN <<0>>
    ELSE [k \in 1..Len(page.TextRegion) |-> k]

\* the segments a file's iteration hands to _process_segment, in order:
\* 0 is the page, k > 0 the k-th of page.get_TextRegion() + page.get_TableRegion()
Segments(page, oplevel) ==
    IF oplevel = "page" THEN <<0>>
    ELSE [k \in 1..(Len(page.TextRegion) + Len(page.TableRegion)) |-> k]

\* the page after _process_segment has returned for segment ref
ProcessSegment(page, ref, xywh, answer) ==
    IF ref = 0 THEN AnnotateSegment(page, TRUE, FALSE, xywh, answer, ref)
    ELSE IF ref <= Len(page.TextRegion)
    THEN [page EXCEPT !.TextRegion[ref] =
            AnnotateSegment(@, FALSE, TRUE, xywh, answer, ref)]
    ELSE [page EXCEPT !.TableRegion[ref - Len(page.TextRegion)] =
            AnnotateSegment(@, FALSE, FALSE, xywh, answer, ref)]

\* the iteration over a file's segments, from the k-th on: it stops at the
\* first failing assertion
RECURSIVE ProcessSegments(_, _, _, _, _)
ProcessSegments(acc, segments, xywh, answers, k) ==
    IF k > Len(segments) THEN acc
    ELSE IF OsrAssertion(answers[k].osr) # ""
    THEN [acc EXCEPT !.raised = OsrAssertion(answers[k].osr), !.at = segments[k]]
    ELSE ProcessSegments(
            [acc EXCEPT
                !.page = ProcessSegment(@, segments[k], xywh, answers[k]),
                !.files = Append(@, DeskewedImage(segments[k], answers[k].osr, answers[k].layout)),
                !.log = @ \cup OsdLog(answers[k], segments[k])],
            segments, xywh, answers, k + 1)

DeskewFile ==
    /\ tool = "deskew" /\ status = "running" /\ n < NumFiles
    /\ \E input \in DeskewInputs :
        LET page == AddMetadataItem(input.page)
            oplevel == parameter.operation_level
            segments == Segments(page, oplevel)
        IN  \E answers \in [1..Len(segments) -> SegmentAnswers] :
            LET start == [page |-> page, files |-> <<>>, raised |-> "", at |-> 0,
                          log |-> IF oplevel # "page" /\ segments = <<>>
                                  THEN {Msg("warning", "Page contains no text regions", <<>>)}
                                  ELSE {}]
                end == ProcessSegments(start, segments, input.page_xywh, answers, 1)
                added == [k \in 1..Len(end.files) |->
                            AddFile(n, FILEGRP_IMG_DESKEW, "image/png", end.files[k])]
            IN  /\ user_defined_dpi' =
                        IF input.image.xResolution # 1 THEN <<Dpi(input.image)>>
                        ELSE user_defined_dpi
                /\ log' = end.log
                /\ cur' = [n |-> n, input |-> input, answers |-> answers]
                /\ IF end.raised # ""
                   THEN /\ status' = "aborted"
                        /\ workspace' = workspace \o <<DownloadFile(n)>> \o added
                        /\ UNCHANGED n
                   ELSE /\ status' = "running"
                        /\ n' = n + 1
                        /\ workspace' = workspace \o <<DownloadFile(n)>> \o added
                                \o PageFile(n, end.page)
    /\ UNCHANGED <<tool, parameter, image>>

(***************************************************************************)
(* segment-line                                                            *)
(***************************************************************************)
\* the boxes GetComponentImages(RIL.TEXTLINE, True) gives, local to the region image
LineBoxes == { [x |-> 1, y |-> 2, w |-> 30, h |-> 8], [x |-> 3, y |-> 12, w |-> 25, h |-> 9] }

\* the sequences of up to k different members of S
DistinctSeqUpTo(S, k) ==
    {q \in SeqUpTo(S, k) : \A i, j \in DOMAIN q : i # j => q[i] # q[j]}

\* common.image_from_region: the region's bounding box in the page, as x/y/w/h
image_from_region(region) ==
    LET points == region.Coords
    IN  [x |-> points[1][1], y |-> points[1][2],
         w |-> points[3][1] - points[1][1], h |-> points[3][2] - points[1][2]]

\* a variant of LineXywh that translates x only
LineXywhXOnly(line_xywh, region_xywh) == [line_xywh EXCEPT !.x = @ + region_xywh.x]

\* line_xywh['x'] += region_xywh['x']; line_xywh['y'] += region_xywh['y']
LineXywh(line_xywh, region_xywh) ==
    [line_xywh EXCEPT !.x = @ + region_xywh.x, !.y = @ + region_xywh.y]

TextLine(region_id, line_no, line_xywh) ==
    [id |-> <<region_id, line_no>>, Coords |-> points_from_xywh(line_xywh)]

\* a variant of KeptLines that never removes a line
KeptLinesAlways(lines, overwrite_lines) == lines

\* the TextLines of a region before the engine's lines are added
KeptLines(lines, overwrite_lines) ==
    IF lines # <<>> /\ overwrite_lines THEN <<>> ELSE lines

\* a region after the loop over its components
SegmentRegion(region, components, overwrite_lines) ==
    [region EXCEPT !.TextLine =
        KeptLines(@, overwrite_lines)
        \o [k \in 1..Len(components) |->
              TextLine(region.id, k - 1, LineXywh(components[k], image_from_region(region)))]]

SegmentLog(region, overwrite_lines) ==
    IF region.TextLine = <<>> THEN {}
    ELSE IF overwrite_lines THEN {Msg("info", "removing existing TextLines", <<region.id>>)}
    ELSE {Msg("warning", "keeping existing TextLines", <<region.id>>)}

\* a TextLine some other tool left in a region
ForeignLine(i) == [id |-> <<i, 99>>, Coords |-> points_from_bbox(11, 12, 13, 14)]

\* the TextLines an input region comes with: none, another tool's, or what
\* this processor wrote in an earlier run on the same image
ExistingLines == {"none", "foreign", "earlier run"}

InputRegion(i, existing, components) ==
    Region("TextRegion", i,
           IF existing = "none" THEN <<>>
           ELSE IF existing = "foreign" THEN <<ForeignLine(i)>>
           ELSE SegmentRegion(Region("TextRegion", i, <<>>), components, TRUE).TextLine)

SegmentLineFile ==
    /\ tool = "segment-line" /\ status = "running" /\ n < NumFiles
    /\ \E im \in {i \in Images : i.resolutionUnit = "inches"}, r \in 0..MaxRegions :
       \E answers \in [1..r -> DistinctSeqUpTo(LineBoxes, MaxLines)],
          existing \in [1..r -> ExistingLines] :
        LET input == [image |-> im,
                      page |-> Page(<<>>, [i \in 1..r |-> InputRegion(i, existing[i], answers[i])], <<>>)]
            page == AddMetadataItem(input.page)
            overwrite_lines == parameter.overwrite_lines
            out == [page EXCEPT !.TextRegion =
                        [i \in 1..r |-> SegmentRegion(page.TextRegion[i], answers[i], overwrite_lines)]]
        IN  /\ user_defined_dpi' = IF im.dpi # 0 THEN <<im.dpi>> ELSE user_defined_dpi
            /\ log' = UNION {SegmentLog(page.TextRegion[i], overwrite_lines) : i \in 1..r}
            /\ workspace' = workspace \o <<DownloadFile(n)>>
                    \o PageFile(n, out)
            /\ cur' = [n |-> n, input |-> input, answers |-> answers]
            /\ n' = n + 1
    /\ UNCHANGED <<tool, parameter, status, image>>

\* the loop over the input files is left and the engine is closed
Finish ==
    /\ status = "running" /\ n = NumFiles
    /\ status' = "done"
    /\ UNCHANGED <<tool, parameter, n, workspace, log, image, user_defined_dpi, cur>>

\* self.parameter: each processor reads its own parameters only
Parameters(t) ==
    IF t = "crop"
    THEN { [padding |-> p, operation_level |-> "page", overwrite_lines |-> TRUE] : p \in Paddings }
    ELSE IF t = "deskew"
    THEN { [padding |-> 0, operation_level |-> o, overwrite_lines |-> TRUE] : o \in OperationLevels }
    ELSE { [padding |-> 0, operation_level |-> "page", overwrite_lines |-> o] : o \in BOOLEAN }

Tools == {"crop", "deskew", "segment-line"}

InitOf(tools) ==
    /\ tool \in tools
    /\ parameter \in Parameters(tool)
    /\ n = 0
    /\ status = "running"
    /\ workspace = <<>>
    /\ log = {}
    /\ image = <<>>
    /\ user_defined_dpi = <<>>
    /\ cur = [n |-> -1, input |-> <<>>, answers |-> <<>>]

Next == CropFile \/ DeskewFile \/ SegmentLineFile \/ Finish

Init == InitOf(Tools)

Spec == Init /\ [][Next]_vars

\* one processor at a time
SpecCrop == InitOf({"crop"}) /\ [][CropFile \/ Finish]_vars
SpecDeskew == InitOf({"deskew"}) /\ [][DeskewFile \/ Finish]_vars
SpecSegmentLine == InitOf({"segment-line"}) /\ [][SegmentLineFile \/ Finish]_vars

(***************************************************************************)
(* What the claims are stated over.                                        *)
(***************************************************************************)
IsOutput(call) == call.op = "add_file" /\ call.file_grp = output_file_grp
IsImageFile(call) == call.op = "add_file" /\ call.file_grp # output_file_grp
IsDownload(call) == call.op = "download_file"

\* the PAGE files added to the output file group, in the order they were added
Outputs == SelectSeq(workspace, IsOutput)
Downloads == SelectSeq(workspace, IsDownload)

\* the latest iteration ended without an exception: its output is the last one
Processed == cur.n >= 0 /\ n = cur.n + 1
OutputPage == Outputs[Len(Outputs)].content

(***************************************************************************)
(* C1: in a run of crop, deskew or segment-line that has not aborted, the  *)
(* output file group holds exactly one PAGE file for each input file       *)
(* handled so far, in input order, and the output of a file was added      *)
(* before the next file was downloaded, whatever the engine answered.      *)
(***************************************************************************)
C1_OneOutputPerInput ==
    /\ status # "aborted" =>
         /\ Len(Outputs) = n
         /\ \A i \in 1..Len(Outputs) :
              Outputs[i].n = i - 1 /\ Outputs[i].mimetype = MIMETYPE_PAGE
    /\ status = "done" => Len(Outputs) = NumFiles
    /\ \A p \in DOMAIN workspace :
         IsDownload(workspace[p]) /\ workspace[p].n > 0 =>
            \E q \in 1..(p - 1) :
               IsOutput(workspace[q]) /\ workspace[q].n = workspace[p].n - 1
    /\ \A i \in 1..Len(Downloads) : Downloads[i].n = i - 1

\* a run that ended normally although the engine found nothing in its last file
C1_Witness ==
    /\ status = "done" /\ Len(Outputs) = NumFiles /\ NumFiles > 1
    /\ cur.answers = <<>>
    /\ OutputPage.AlternativeImage = <<>>

(***************************************************************************)
(* crop: the claims' own arithmetic over the latest iteration (cur, log).  *)
(***************************************************************************)
SetMin(S) == CHOOSE x \in S : \A y \in S : x <= y
SetMax(S) == CHOOSE x \in S : \A y \in S : x >= y

CropProcessed == tool = "crop" /\ Processed

\* the resolution of the page image is known; then tessapi was given its dpi
ResolutionKnown == cur.input.image.xResolution # 1

\* below 25 / zoom, zoom = 300 / dpi when the resolution is known, else 1
TooSmall(size) ==
    IF ResolutionKnown THEN size * 300 < 25 * user_defined_dpi[1] ELSE size < 25

\* a detected block that is degenerate or empty
Degenerate(component) ==
    \/ component.bin_bbox = <<>>
    \/ TooSmall(component.bin_bbox[1][3] - component.bin_bbox[1][1])
    \/ TooSmall(component.bin_bbox[1][4] - component.bin_bbox[1][2])

\* the extent spanning the accepted ones of the first i blocks:
\* <<min_x, max_x, min_y, max_y>>, starting from width, 0, height, 0
RunningExtent(i) ==
    LET accepted == {cur.answers[j].xywh : j \in {k \in 1..i : ~Degenerate(cur.answers[k])}}
    IN  << SetMin({cur.input.image.width} \cup {b.x : b \in accepted}),
           SetMax({0} \cup {b.x + b.w : b \in accepted}),
           SetMin({cur.input.image.height} \cup {b.y : b \in accepted}),
           SetMax({0} \cup {b.y + b.h : b \in accepted}) >>

FinalExtent == RunningExtent(Len(cur.answers))
ExtentFound == FinalExtent[1] < FinalExtent[2] /\ FinalExtent[3] < FinalExtent[4]

IgnoredWith(level, i) ==
    \E m \in log : m.level = level /\ m.ref = <<i>>
        /\ m.msg \in {"Ignoring region: empty", "Ignoring region: width", "Ignoring region: height"}

Contributed(i) == Msg("debug", "Updated page border", <<i>> \o RunningExtent(i)) \in log

\* the image files added for the file of the latest iteration
ImageFilesOf(i) == SelectSeq(workspace, LAMBDA c : IsImageFile(c) /\ c.n = i)

(***************************************************************************)
(* C2: in crop, a file no valid page extent is found for gets an error     *)
(* logged, no Border set, no cropped image file and no AlternativeImage,   *)
(* its output PAGE file is still written, and the run does not abort: the  *)
(* remaining input files are still processed.                              *)
(***************************************************************************)
\* C2, the part about the file itself: error logged, nothing set or added,
\* output written, no exception
C2_FileHandled ==
    CropProcessed /\ ~ExtentFound =>
        /\ \E m \in log : m.level = "error"
        /\ OutputPage.Border = cur.input.page.Border
        /\ OutputPage.AlternativeImage = <<>>
        /\ ImageFilesOf(cur.n) = <<>>
        /\ Len(Outputs) = cur.n + 1
        /\ status # "aborted"

\* C2 as claimed: the file is handled so (C2_FileHandled), and the run does
\* not abort after a file without extent, so every remaining file is processed
C2_NoExtentDoesNotAbort ==
    /\ C2_FileHandled
    /\ tool = "crop" /\ (\E i \in 1..Len(Outputs) : Outputs[i].content.AlternativeImage = <<>>)
         => status # "aborted"

(***************************************************************************)
(* C4: in crop, every detected block that is degenerate or empty (no       *)
(* bounding box of its binarized image, or binarized width or height below *)
(* 25/zoom) is skipped with a log record and does not change the running   *)
(* extent; every other detected block contributes to it.  The record is    *)
(* of level debug (C4_SkippedWithDebug); the claim as made says warning    *)
(* (C4_SkippedWithWarning).                                                *)
(***************************************************************************)
C4_Blocks(level) ==
    CropProcessed =>
        /\ \A i \in DOMAIN cur.answers :
             IF Degenerate(cur.answers[i])
             THEN /\ IgnoredWith(level, i)
                  /\ ~\E m \in log : m.msg = "Updated page border" /\ m.ref[1] = i
             ELSE /\ Contributed(i)
                  /\ ~\E l \in {"debug", "info", "warning", "error"} : IgnoredWith(l, i)
        /\ ExtentFound <=> ~\E m \in log : m.level = "error"

\* C4 as amended: a degenerate or empty block is skipped with a debug record
\* and leaves the running extent alone, every other block contributes to it
C4_SkippedWithDebug == C4_Blocks("debug")

\* C4 as claimed: a degenerate or empty block is skipped with a warning
C4_SkippedWithWarning == C4_Blocks("warning")

\* a block skipped for its size at a known resolution, then a block accepted
C4_Witness ==
    /\ CropProcessed /\ ResolutionKnown /\ Len(cur.answers) = 2
    /\ Degenerate(cur.answers[1]) /\ cur.answers[1].bin_bbox # <<>>
    /\ ~Degenerate(cur.answers[2])
    /\ Contributed(2)

(***************************************************************************)
(* C5: in crop, a Border that is set is the extent spanning all accepted   *)
(* blocks, expanded by the padding on every side and clamped to the page   *)
(* image, and the image saved and referenced as AlternativeImage "cropped" *)
(* is exactly that box.  For a padding >= 0 the box lies within            *)
(* [0,width] x [0,height] and has positive width and height                *)
(* (C5_BorderIsPaddedExtent); the claim as made says so for every padding  *)
(* (C5_BorderForEveryPadding).                                             *)
(***************************************************************************)
\* <<left, top, right, bottom>> of the padded, clamped extent
PaddedExtent ==
    LET e == FinalExtent
        padding == parameter.padding
        left == IF e[1] - padding < 0 THEN 0 ELSE e[1] - padding
        right == IF e[2] + padding > cur.input.image.width THEN cur.input.image.width ELSE e[2] + padding
        top == IF e[3] - padding < 0 THEN 0 ELSE e[3] - padding
        bottom == IF e[4] + padding > cur.input.image.height THEN cur.input.image.height ELSE e[4] + padding
    IN  <<left, top, right, bottom>>

BoxOf(points) == <<points[1][1], points[1][2], points[3][1], points[3][2]>>

BoxInPage(box) ==
    /\ 0 <= box[1] /\ box[1] < box[3] /\ box[3] <= cur.input.image.width
    /\ 0 <= box[2] /\ box[2] < box[4] /\ box[4] <= cur.input.image.height

BorderSet ==
    /\ OutputPage.Border # <<>>
    /\ BoxOf(OutputPage.Border[1].Coords) = PaddedExtent
    /\ OutputPage.Border[1].Coords =
         << <<PaddedExtent[1], PaddedExtent[2]>>, <<PaddedExtent[3], PaddedExtent[2]>>,
            <<PaddedExtent[3], PaddedExtent[4]>>, <<PaddedExtent[1], PaddedExtent[4]>> >>
    /\ Len(OutputPage.AlternativeImage) = 1
    /\ OutputPage.AlternativeImage[1].comments = "cropped"
    /\ OutputPage.AlternativeImage[1].filename.box = PaddedExtent
    /\ Len(ImageFilesOf(cur.n)) = 1
    /\ ImageFilesOf(cur.n)[1].file_grp = FILEGRP_IMG_CROP
    /\ ImageFilesOf(cur.n)[1].content = OutputPage.AlternativeImage[1].filename

\* C5 as amended: the Border and the cropped image are the padded, clamped
\* extent of the accepted blocks; it is a proper box within the page image
\* when the padding is not negative
C5_BorderIsPaddedExtent ==
    CropProcessed /\ ExtentFound =>
        /\ BorderSet
        /\ parameter.padding >= 0 => BoxInPage(PaddedExtent)

\* C5 as claimed: it is a proper box within the page image for every padding
C5_BorderForEveryPadding ==
    CropProcessed /\ ExtentFound => BorderSet /\ BoxInPage(PaddedExtent)

\* a Border clamped on the left and on the right by a positive padding
C5_Witness ==
    /\ CropProcessed /\ ExtentFound /\ parameter.padding > 0
    /\ Len(cur.answers) = 2 /\ ~Degenerate(cur.answers[1]) /\ ~Degenerate(cur.answers[2])
    /\ cur.answers[1] # cur.answers[2]
    /\ BoxOf(OutputPage.Border[1].Coords)[1] = 0
    /\ BoxOf(OutputPage.Border[1].Coords)[3] = cur.input.image.width

(***************************************************************************)
(* C9: in crop, an input page that already has TextRegions is no error:    *)
(* their extent is reported in a warning and ignored, the file (also the   *)
(* first of the run) is processed to its output, and the Border is the one *)
(* computed for the page image alone.                                      *)
(***************************************************************************)
C9_ExistingRegionsIgnored ==
    tool = "crop" /\ cur.n >= 0 /\ cur.input.page.TextRegion # <<>> =>
        /\ status # "aborted"
        /\ Processed
        /\ Msg("warning", "Ignoring extent from existing TextRegions", <<>>) \in log
        /\ OutputPage.TextRegion = cur.input.page.TextRegion
        /\ IF ExtentFound THEN BorderSet ELSE OutputPage.Border = cur.input.page.Border

(***************************************************************************)
(* C10: in crop, the Border of an input page is overwritten: whatever the  *)
(* engine answers, the Border of the output PAGE file is the one computed  *)
(* in this run, never the one the input came with.                         *)
(***************************************************************************)
C10_BorderOverwritten ==
    CropProcessed /\ cur.input.page.Border # <<>> =>
        /\ OutputPage.Border # <<>>
        /\ OutputPage.Border # cur.input.page.Border

(***************************************************************************)
(* deskew: the claims' own reading of the latest iteration.                *)
(***************************************************************************)
DeskewProcessed == tool = "deskew" /\ Processed

HasNaN(answer) ==
    answer.osr # <<>> /\ (answer.osr[1].orient_conf.nan \/ answer.osr[1].script_conf.nan)

NaNSegments == {k \in DOMAIN cur.answers : HasNaN(cur.answers[k])}

(***************************************************************************)
(* C3: in deskew, an OSD result whose orientation confidence or script     *)
(* confidence is NaN fails an assertion: the run aborts at that segment,   *)
(* nothing is added for it, no output PAGE file is added for the current   *)
(* input file nor for a later one, and the output files added before       *)
(* stay as they were.                                                      *)
(***************************************************************************)
\* C3, the state after the iteration that met the NaN
C3_AtNaN ==
    tool = "deskew" /\ cur.n >= 0 /\ NaNSegments # {} =>
        /\ status = "aborted"
        /\ n = cur.n
        /\ Len(Outputs) = cur.n
        /\ Len(ImageFilesOf(cur.n)) = SetMin(NaNSegments) - 1
        /\ \A i \in 1..Len(Outputs) : Outputs[i].n < cur.n

\* C3: every step leads to such a state, an aborted run takes no further step,
\* and the aborting step leaves the outputs added before as they were
C3_AbortsAtNaN ==
    [][ /\ status # "aborted"
        /\ C3_AtNaN'
        /\ status' = "aborted" =>
             Outputs' = Outputs /\ workspace' # workspace
                /\ SubSeq(workspace', 1, Len(workspace)) = workspace ]_vars

\* the second file aborts at its second region, after one file and one region
C3_Witness ==
    /\ tool = "deskew" /\ status = "aborted" /\ cur.n = 1
    /\ NaNSegments # {} /\ SetMin(NaNSegments) = 2
    /\ cur.answers[2].osr[1].script_conf.nan /\ ~cur.answers[2].osr[1].orient_conf.nan
    /\ Len(Outputs) = 1 /\ Len(ImageFilesOf(1)) = 1

(***************************************************************************)
(* C8: in deskew, each processed segment gets exactly one new              *)
(* AlternativeImage and one image file in file group OCR-D-IMG-DESKEW,     *)
(* with or without an OSD result and with or without a layout result.      *)
(* With operation_level "page" the page is the only segment and no region  *)
(* is changed; otherwise the segments are all TextRegions and TableRegions *)
(* of the page, the page itself gets no AlternativeImage, and a page       *)
(* without regions only produces a warning.                                *)
(***************************************************************************)
OneNewImage(before, after, ref) ==
    /\ Len(after.AlternativeImage) = Len(before.AlternativeImage) + 1
    /\ SubSeq(after.AlternativeImage, 1, Len(before.AlternativeImage)) = before.AlternativeImage
    /\ Cardinality({k \in DOMAIN workspace :
            /\ IsImageFile(workspace[k]) /\ workspace[k].n = cur.n
            /\ workspace[k].file_grp = "OCR-D-IMG-DESKEW"
            /\ workspace[k].content = after.AlternativeImage[Len(after.AlternativeImage)].filename
            /\ workspace[k].content.of = ref}) = 1

\* C8: one new AlternativeImage and one image file for the page alone, or
\* for each TextRegion and TableRegion and none for the page
C8_OneImagePerSegment ==
    DeskewProcessed =>
        LET before == cur.input.page
            after == OutputPage
            nText == Len(before.TextRegion)
            nTable == Len(before.TableRegion)
        IN  IF parameter.operation_level = "page"
            THEN /\ OneNewImage(before, after, 0)
                 /\ after.TextRegion = before.TextRegion
                 /\ after.TableRegion = before.TableRegion
                 /\ Len(ImageFilesOf(cur.n)) = 1
            ELSE /\ after.AlternativeImage = before.AlternativeImage
                 /\ Len(after.TextRegion) = nText /\ Len(after.TableRegion) = nTable
                 /\ \A i \in 1..nText : OneNewImage(before.TextRegion[i], after.TextRegion[i], i)
                 /\ \A i \in 1..nTable :
                        OneNewImage(before.TableRegion[i], after.TableRegion[i], nText + i)
                 /\ Len(ImageFilesOf(cur.n)) = nText + nTable
                 /\ nText + nTable = 0 =>
                        /\ {m \in log : m.level \in {"warning", "error"}} =
                                {Msg("warning", "Page contains no text regions", <<>>)}
                        /\ after = [before EXCEPT !.MetadataItem = Append(@, "deskew")]

\* a TextRegion without OSD result and a TableRegion without layout result
C8_Witness ==
    /\ DeskewProcessed /\ parameter.operation_level = "region"
    /\ Len(cur.input.page.TextRegion) = 1 /\ Len(cur.input.page.TableRegion) = 1
    /\ cur.answers[1].osr = <<>> /\ cur.answers[1].layout # <<>>
    /\ cur.answers[2].osr # <<>> /\ cur.answers[2].layout = <<>>
    /\ Len(OutputPage.TableRegion[1].AlternativeImage) = 1

(***************************************************************************)
(* C11: in deskew, when layout analysis yields a result for a segment, the *)
(* image saved for the segment is rotated clockwise by a + d: a is the     *)
(* orientation of the OSD result in degrees if there is an OSD result with *)
(* an orientation confidence of at least 10, else 0; d is the deskew angle *)
(* of the layout result in degrees with its sign inverted.  The            *)
(* Orientation of the layout result does not enter the angle: where its    *)
(* value differs from a, a warning is logged and nothing else changes.     *)
(***************************************************************************)
\* the answers for the segment an image file was saved for
AnswerOf(ref) == cur.answers[IF ref = 0 THEN 1 ELSE ref]

\* a, in ticks
OsdTicks(answer) ==
    IF answer.osr # <<>> /\ answer.osr[1].orient_conf.value >= 10
    THEN answer.osr[1].orient_deg * TicksPerDegree ELSE 0

\* d, in ticks
DeskewTicks(answer) == 0 - answer.layout[1].deskew_angle

\* the Orientation of the layout result as a clockwise angle in degrees
LayoutDegrees(answer) ==
    IF answer.layout[1].orientation = "PAGE_RIGHT" THEN 270
    ELSE IF answer.layout[1].orientation = "PAGE_DOWN" THEN 180
    ELSE IF answer.layout[1].orientation = "PAGE_LEFT" THEN 90
    ELSE 0

Inconsistent(ref) ==
    Msg("warning", "inconsistent angles from layout analysis and orientation detection", <<ref>>)

\* C11: the rotation of a segment with a layout result is a + d, whatever
\* the Orientation of the layout result; a mismatch is a warning only
C11_RotationIsOsdPlusDeskew ==
    DeskewProcessed =>
        /\ Len(ImageFilesOf(cur.n)) = Len(cur.answers)
        /\ \A k \in DOMAIN cur.answers :
             LET file == ImageFilesOf(cur.n)[k].content
                 answer == AnswerOf(file.of)
             IN  answer.layout # <<>> =>
                   /\ file.rotated = OsdTicks(answer) + DeskewTicks(answer)
                   /\ Inconsistent(file.of) \in log
                        <=> LayoutDegrees(answer) * TicksPerDegree # OsdTicks(answer)

\* a segment with an OSD orientation of 180 at confidence 10, a layout result
\* with Orientation PAGE_LEFT and a deskew angle: rotated by 180 degrees less
\* one tick, beside a segment whose low-confidence OSD result is left out
C11_Witness ==
    /\ DeskewProcessed /\ parameter.operation_level = "region"
    /\ Len(cur.answers) = 2
    /\ cur.answers[1].osr # <<>> /\ cur.answers[1].layout # <<>>
    /\ cur.answers[1].osr[1].orient_conf.value = 10 /\ cur.answers[1].osr[1].orient_deg = 180
    /\ cur.answers[1].layout[1].orientation = "PAGE_LEFT"
    /\ cur.answers[1].layout[1].deskew_angle = 1
    /\ ImageFilesOf(cur.n)[1].content.rotated = 180 * TicksPerDegree - 1
    /\ Inconsistent(1) \in log
    /\ cur.answers[2].osr # <<>> /\ cur.answers[2].layout # <<>>
    /\ cur.answers[2].osr[1].orient_conf.value < 10 /\ cur.answers[2].osr[1].orient_deg = 90
    /\ ImageFilesOf(cur.n)[2].content.rotated = 0
    /\ Inconsistent(2) \notin log

(***************************************************************************)
(* segment-line: the claims' own reading of the latest iteration.          *)
(***************************************************************************)
SegmentLineProcessed == tool = "segment-line" /\ Processed

\* the line is the k-th one the engine detected in the i-th region
DetectedAt(line, i, k) ==
    /\ line.id = <<cur.input.page.TextRegion[i].id, k - 1>>
    /\ BoxOf(line.Coords)[3] - BoxOf(line.Coords)[1] = cur.answers[i][k].w
    /\ BoxOf(line.Coords)[4] - BoxOf(line.Coords)[2] = cur.answers[i][k].h

(***************************************************************************)
(* C6: in segment-line, with overwrite_lines true a region's TextLines     *)
(* after processing are exactly the lines the engine detected in this run, *)
(* in detection order; with overwrite_lines false every existing TextLine  *)
(* is kept unchanged at the front of the list.  So a second run with       *)
(* overwrite_lines true and the same engine results yields the TextLines   *)
(* of the first.                                                           *)
(***************************************************************************)
C6_OverwriteLines ==
    SegmentLineProcessed =>
        \A i \in DOMAIN cur.input.page.TextRegion :
            LET before == cur.input.page.TextRegion[i].TextLine
                after == OutputPage.TextRegion[i].TextLine
                detected == cur.answers[i]
                kept == IF parameter.overwrite_lines THEN 0 ELSE Len(before)
            IN  /\ Len(after) = kept + Len(detected)
                /\ \A k \in 1..kept : after[k] = before[k]
                /\ \A k \in 1..Len(detected) : DetectedAt(after[kept + k], i, k)
                /\ ( /\ parameter.overwrite_lines
                     /\ Len(before) = Len(detected)
                     /\ \A k \in 1..Len(detected) : DetectedAt(before[k], i, k) )
                   => after = before

\* a second run over a region with two lines, beside a region with a foreign line
C6_Witness ==
    /\ SegmentLineProcessed /\ parameter.overwrite_lines
    /\ Len(cur.input.page.TextRegion) = 2
    /\ Len(cur.answers[1]) = 2
    /\ Len(cur.input.page.TextRegion[1].TextLine) = 2
    /\ OutputPage.TextRegion[1].TextLine = cur.input.page.TextRegion[1].TextLine
    /\ cur.input.page.TextRegion[2].TextLine = <<ForeignLine(2)>>
    /\ Len(OutputPage.TextRegion[2].TextLine) = 1
    /\ OutputPage.TextRegion[2].TextLine # <<ForeignLine(2)>>

(***************************************************************************)
(* C7: in segment-line, the coordinates of each detected TextLine are the  *)
(* engine's box, which is local to the region image, moved into the page   *)
(* frame: x + region_xywh.x, y + region_xywh.y, width and height as they   *)
(* were, for every region and every detected line.                         *)
(***************************************************************************)
C7_LineCoordinates ==
    SegmentLineProcessed =>
        \A i \in DOMAIN cur.input.page.TextRegion :
            LET after == OutputPage.TextRegion[i].TextLine
                detected == cur.answers[i]
                region_xywh == image_from_region(cur.input.page.TextRegion[i])
            IN  /\ Len(after) >= Len(detected)
                /\ \A k \in 1..Len(detected) :
                     LET x == detected[k].x + region_xywh.x
                         y == detected[k].y + region_xywh.y
                         w == detected[k].w
                         h == detected[k].h
                     IN  after[Len(after) - Len(detected) + k].Coords =
                            << <<x, y>>, <<x + w, y>>, <<x + w, y + h>>, <<x, y + h>> >>

\* two lines detected in the second region of a page
C7_Witness ==
    /\ SegmentLineProcessed
    /\ Len(cur.input.page.TextRegion) = 2
    /\ Len(cur.answers[2]) = 2
    /\ image_from_region(cur.input.page.TextRegion[2]).x > 0
    /\ image_from_region(cur.input.page.TextRegion[2]).y > 0
    /\ image_from_region(cur.input.page.TextRegion[2]).x # image_from_region(cur.input.page.TextRegion[2]).y
    /\ Len(OutputPage.TextRegion[2].TextLine) >= 2

(***************************************************************************)
(* C12: in every processor, the user_defined_dpi the engine has while a    *)
(* file is analysed is the one of that file's image resolution, and the    *)
(* engine has none when that resolution is unknown: a file of unknown      *)
(* resolution is never analysed with the value set for an earlier file of  *)
(* the run.                                                                *)
(***************************************************************************)
\* the engine has analysed the file of the latest iteration: crop analyses
\* every page it gets to, deskew and segment-line every segment they are given
Analysed ==
    /\ cur.n >= 0
    /\ IF tool = "crop" THEN Processed ELSE cur.answers # <<>>

\* the setting that file's resolution gives: its dots per inch if it has a
\* resolution, none if it has not
DpiOfFile == IF cur.input.image.dpi = 0 THEN <<>> ELSE <<cur.input.image.dpi>>

\* C12: the engine's user_defined_dpi during the analysis of a file is the
\* one of that file
C12_DpiOfSameFile == Analysed => user_defined_dpi = DpiOfFile

====
